---- MODULE Spec2Model ----
(***************************************************************************)
(* AppointifyX: the appointments Lambda handler, the AuthService guard and *)
(* the AppointmentService store protocol over the single DynamoDB table    *)
(* (primary key PK/SK, tenant index GSI1, owner index GSI2).               *)
(*                                                                         *)
(* Conventions                                                             *)
(*  - a JavaScript object is a function whose DOMAIN is its set of keys; a *)
(*    property whose value is undefined is an absent key (JSON.stringify   *)
(*    and the DocumentClient both drop it);                                *)
(*  - a timestamp (Date / ISO string) is its number of milliseconds since  *)
(*    the epoch; toISOString is an order-preserving injection of it;       *)
(*  - the table is the set of its items; every item carries PK and SK.     *)
(***************************************************************************)
EXTENDS Integers, Sequences, FiniteSets, TLC

(***************************************************************************)
(* Bounds of the model.                                                    *)
(***************************************************************************)
NumIds == 2            \* appointment ids uuidv4 can hand out
MaxTime == 2           \* appointment instants are TimeStep * (1..MaxTime)
MaxClock == 1          \* the clock runs from Epoch to Epoch + MaxClock ms
MaxInFlight == 1       \* requests suspended between their read and write
Epoch == 2000          \* wall clock (ms) when the first request arrives
TimeStep == 500        \* distance (ms) between two appointment instants

Tenants == {"t1", "t2"}
Users == {"u1", "u2"}
AppointmentIds == {"a" \o ToString(i) : i \in 1..NumIds}
Instants == {TimeStep * i : i \in 1..MaxTime}
Clock == Epoch..(Epoch + MaxClock)

Groups == {"super-admin", "tenant-admin", "tenant-user"}
GroupSets ==
  { {}, {"tenant-user"}, {"tenant-admin"}, {"super-admin"},
    {"tenant-admin", "tenant-user"}, {"super-admin", "tenant-user"},
    {"super-admin", "tenant-admin"} }
Statuses == {"scheduled", "confirmed", "cancelled", "completed"}

VARIABLES
  table,      \* the appointments table: a set of items
  now,        \* Date.now(), in ms
  issued,     \* appointment ids uuidv4 has returned so far
  inflight,   \* update/delete requests between their get and their write
  last        \* the answer the Lambda is returning, Idle when there is none

vars == <<table, now, issued, inflight, last>>

(***************************************************************************)
(* JavaScript objects.                                                     *)
(***************************************************************************)
Has(o, k) == k \in DOMAIN o

\* { ...a, ...b }
Spread(a, b) ==
  [k \in (DOMAIN a) \cup (DOMAIN b) |-> IF k \in DOMAIN b THEN b[k] ELSE a[k]]

\* the object o without the keys ks
Omit(o, ks) == [k \in (DOMAIN o) \ ks |-> o[k]]

Empty == [k \in {} |-> 0]

(***************************************************************************)
(* Key codec.                                                              *)
(***************************************************************************)
\* a key that leaves the tenant out
primaryKeyTenantless(tenantId, appointmentId) ==
  [PK |-> "APPOINTMENT#" \o appointmentId, SK |-> "APPOINTMENT#" \o appointmentId]

\* a key whose sort key does not carry the appointment id
primaryKeySameSortKey(tenantId, appointmentId) ==
  [PK |-> "TENANT#" \o tenantId \o "#APPOINTMENT#" \o appointmentId,
   SK |-> "APPOINTMENT#"]

primaryKey(tenantId, appointmentId) ==
  [PK |-> "TENANT#" \o tenantId \o "#APPOINTMENT#" \o appointmentId,
   SK |-> "APPOINTMENT#" \o appointmentId]

tenantIndexPK(tenantId) == "TENANT#" \o tenantId

\* an owner partition that leaves the tenant out
ownerIndexPKTenantless(tenantId, userId) == "USER#" \o userId

ownerIndexPK(tenantId, userId) == "TENANT#" \o tenantId \o "#USER#" \o userId

Pad2(n) == IF n < 10 THEN "0" \o ToString(n) ELSE ToString(n)

\* moment(t).format('YYYY-MM-DD'), for instants of January 1970 (UTC)
formatDate(t) == "1970-01-" \o Pad2(1 + (t \div 86400000))

\* moment(t).format('HH:mm:ss'): milliseconds are dropped
formatTime(t) ==
  LET s == t \div 1000
  IN  Pad2((s \div 3600) % 24) \o ":" \o Pad2((s \div 60) % 60) \o ":" \o Pad2(s % 60)

indexSortKey(startTime) ==
  "DATE#" \o formatDate(startTime) \o "#TIME#" \o formatTime(startTime)

KeyAttributes == {"PK", "SK", "GSI1PK", "GSI1SK", "GSI2PK", "GSI2SK"}

(***************************************************************************)
(* AuthService.                                                            *)
(***************************************************************************)
\* a decoded JWT payload; exp (seconds) is optional
Payload(sub, groups, tenant) ==
  ("sub" :> sub) @@ ("cognito:groups" :> groups) @@ ("custom:tenant_id" :> tenant)

ExpValues == 0..((Epoch \div 1000) + 1)

Payloads ==
  LET base == {Payload(u, g, t) : u \in Users, g \in GroupSets, t \in Tenants}
  IN  base \cup {p @@ ("exp" :> e) : p \in base, e \in ExpValues}

\* what follows 'Bearer ' in the Authorization header
Tokens ==
  {[raw |-> ""], [raw |-> "garbage"]} \cup {[raw |-> "jwt", payload |-> p] : p \in Payloads}

Headers == {Empty} \cup {[Authorization |-> t] : t \in Tokens}

\* jwt.decode followed by the expiry check; ok = FALSE stands for null
verifyToken(token, clock) ==
  IF token.raw # "jwt"
    THEN [ok |-> FALSE]
    ELSE LET payload == token.payload
             nowSec == clock \div 1000
         IN  IF Has(payload, "exp") /\ payload["exp"] # 0 /\ payload["exp"] < nowSec
               THEN [ok |-> FALSE]
               ELSE [ok |-> TRUE, payload |-> payload]

\* a tenant-admin let into every tenant
hasTenantAccessAdminAnywhere(userGroups, userTenantId, requestedTenantId) ==
  IF "super-admin" \in userGroups \/ "tenant-admin" \in userGroups
    THEN TRUE
    ELSE IF "tenant-user" \in userGroups
      THEN userTenantId = requestedTenantId
      ELSE FALSE

hasTenantAccess(userGroups, userTenantId, requestedTenantId) ==
  IF "super-admin" \in userGroups
    THEN TRUE
    ELSE IF "tenant-admin" \in userGroups \/ "tenant-user" \in userGroups
           THEN userTenantId = requestedTenantId
           ELSE FALSE

determineUserRole(userGroups) ==
  IF "super-admin" \in userGroups THEN "super-admin"
  ELSE IF "tenant-admin" \in userGroups THEN "tenant-admin"
  ELSE IF "tenant-user" \in userGroups THEN "tenant-user"
  ELSE "tenant-user"

validateRequest(headers, requestedTenantId, clock) ==
  IF ~Has(headers, "Authorization")
    THEN [isValid |-> FALSE, error |-> "Authorization header is required"]
  ELSE IF headers.Authorization.raw = ""
    THEN [isValid |-> FALSE, error |-> "Bearer token is required"]
  ELSE LET decodedToken == verifyToken(headers.Authorization, clock)
       IN  IF ~decodedToken.ok
             THEN [isValid |-> FALSE, error |-> "Invalid token"]
             ELSE LET userId == decodedToken.payload["sub"]
                      userGroups == decodedToken.payload["cognito:groups"]
                      userTenantId == decodedToken.payload["custom:tenant_id"]
                  IN  IF ~hasTenantAccess(userGroups, userTenantId, requestedTenantId)
                        THEN [isValid |-> FALSE, error |-> "Access denied to tenant"]
                        ELSE [isValid |-> TRUE, userId |-> userId,
                              tenantId |-> requestedTenantId,
                              role |-> determineUserRole(userGroups)]

(***************************************************************************)
(* Joi schemas.  validate returns [ok |-> FALSE] for an error and          *)
(* [ok |-> TRUE, value |-> v] with the defaults filled in otherwise.       *)
(***************************************************************************)
SchemaKeys ==
  {"title", "description", "startTime", "endTime", "location", "attendees",
   "status", "reminderMinutes"}

\* the constraints the two schemas share on the fields the model supplies
FieldsOk(d) ==
  /\ DOMAIN d \subseteq SchemaKeys
  /\ Has(d, "title") => (d.title # "" /\ Len(d.title) <= 200)
  /\ Has(d, "status") => d.status \in Statuses

\* the create schema without the order of endTime and startTime
appointmentSchemaUnordered(d) ==
  IF /\ FieldsOk(d)
     /\ Has(d, "title") /\ Has(d, "startTime") /\ Has(d, "endTime")
    THEN [ok |-> TRUE,
          value |-> Spread([status |-> "scheduled", reminderMinutes |-> 60], d)]
    ELSE [ok |-> FALSE]

appointmentSchema(d) ==
  IF /\ FieldsOk(d)
     /\ Has(d, "title") /\ Has(d, "startTime") /\ Has(d, "endTime")
     /\ d.endTime > d.startTime
    THEN [ok |-> TRUE,
          value |-> Spread([status |-> "scheduled", reminderMinutes |-> 60], d)]
    ELSE [ok |-> FALSE]

\* the update schema without min(1)
updateAppointmentSchemaNoMin(d) ==
  IF FieldsOk(d) THEN [ok |-> TRUE, value |-> d] ELSE [ok |-> FALSE]

\* the update schema with unknown keys allowed
updateAppointmentSchemaAllowUnknown(d) ==
  IF FieldsOk(Omit(d, DOMAIN d \ SchemaKeys)) /\ Cardinality(DOMAIN d) >= 1
    THEN [ok |-> TRUE, value |-> d]
    ELSE [ok |-> FALSE]

updateAppointmentSchema(d) ==
  IF FieldsOk(d) /\ Cardinality(DOMAIN d) >= 1
    THEN [ok |-> TRUE, value |-> d]
    ELSE [ok |-> FALSE]

(***************************************************************************)
(* The DocumentClient operations on the table.                             *)
(***************************************************************************)
AtKey(tbl, key) == {i \in tbl : i.PK = key.PK /\ i.SK = key.SK}

\* get: [found |-> FALSE] when result.Item is absent
dbGet(tbl, key) ==
  IF AtKey(tbl, key) = {}
    THEN [found |-> FALSE]
    ELSE [found |-> TRUE, Item |-> CHOOSE i \in AtKey(tbl, key) : TRUE]

\* a put without its condition: the item replaces whatever is at the key
dbPutOverwrite(tbl, item) ==
  [ok |-> TRUE, table |-> (tbl \ AtKey(tbl, item)) \cup {item}]

\* put with ConditionExpression attribute_not_exists(PK)
dbPut(tbl, item) ==
  IF AtKey(tbl, item) # {}
    THEN [ok |-> FALSE, table |-> tbl]
    ELSE [ok |-> TRUE, table |-> tbl \cup {item}]

\* update with SET assignments and ReturnValues ALL_NEW: an upsert
\* an update that answers but stores nothing
dbUpdateNoWrite(tbl, key, assignments) ==
  LET old == IF AtKey(tbl, key) = {} THEN key ELSE dbGet(tbl, key).Item
  IN  [Attributes |-> Spread(old, assignments), table |-> tbl]

\* an update whose SET keeps the attributes the item already has
dbUpdateKeepsExisting(tbl, key, assignments) ==
  LET old == IF AtKey(tbl, key) = {} THEN key ELSE dbGet(tbl, key).Item
      new == Spread(assignments, old)
  IN  [Attributes |-> new, table |-> (tbl \ AtKey(tbl, key)) \cup {new}]

dbUpdate(tbl, key, assignments) ==
  LET old == IF AtKey(tbl, key) = {} THEN key ELSE dbGet(tbl, key).Item
      new == Spread(old, assignments)
  IN  [Attributes |-> new, table |-> (tbl \ AtKey(tbl, key)) \cup {new}]

\* a delete that answers but removes nothing
dbDeleteNothing(tbl, key) == tbl

dbDelete(tbl, key) == tbl \ AtKey(tbl, key)

(***************************************************************************)
(* Index queries.  DynamoDB returns the items of an index partition in     *)
(* ascending order of the index sort key (strings compare by code point);  *)
(* the order of items with equal sort keys is not specified.               *)
(***************************************************************************)
\* the characters of an index sort key, in code point order
CodePoints == "#-0123456789:ADEIMT"

CharRank(c) == CHOOSE n \in 1..Len(CodePoints) : SubSeq(CodePoints, n, n) = c

RECURSIVE StrLessFrom(_, _, _)
StrLessFrom(a, b, i) ==
  IF i > Len(a) THEN i <= Len(b)
  ELSE IF i > Len(b) THEN FALSE
  ELSE IF SubSeq(a, i, i) = SubSeq(b, i, i) THEN StrLessFrom(a, b, i + 1)
  ELSE CharRank(SubSeq(a, i, i)) < CharRank(SubSeq(b, i, i))

StrLess(a, b) == StrLessFrom(a, b, 1)

\* every order in which a query may return the items S, sorted on attribute sk
Orderings(S, sk) ==
  {s \in [1..Cardinality(S) -> S] :
     /\ \A i, j \in DOMAIN s : i # j => s[i] # s[j]
     /\ \A i, j \in DOMAIN s : i < j => ~StrLess(s[j][sk], s[i][sk])}

\* the items of the partition pkValue of the index (pk, sk)
Partition(tbl, pk, sk, pkValue) ==
  {i \in tbl : Has(i, pk) /\ Has(i, sk) /\ i[pk] = pkValue}

\* a FilterExpression that also narrows by the userId filter
MatchesOwner(item, filters) ==
  /\ Has(filters, "startDate") => (Has(item, "startTime") /\ item.startTime >= filters.startDate)
  /\ Has(filters, "endDate") => (Has(item, "startTime") /\ item.startTime <= filters.endDate)
  /\ Has(filters, "status") => (Has(item, "status") /\ item.status = filters.status)
  /\ Has(filters, "userId") => (Has(item, "userId") /\ item.userId = filters.userId)

\* FilterExpression of listAppointments; a filter is applied when it is truthy
Matches(item, filters) ==
  /\ Has(filters, "startDate") => (Has(item, "startTime") /\ item.startTime >= filters.startDate)
  /\ Has(filters, "endDate") => (Has(item, "startTime") /\ item.startTime <= filters.endDate)
  /\ Has(filters, "status") => (Has(item, "status") /\ item.status = filters.status)

dbQuery(tbl, pk, sk, pkValue, filters) ==
  Orderings({i \in Partition(tbl, pk, sk, pkValue) : Matches(i, filters)}, sk)

(***************************************************************************)
(* AppointmentService.  A result is [outcome |-> "value", value |-> v],    *)
(* [outcome |-> "null"], [outcome |-> "true"], [outcome |-> "false"] or    *)
(* [outcome |-> "throw", error |-> message].                               *)
(***************************************************************************)
Throw(message) == [outcome |-> "throw", error |-> message]

\* a catch block that logs the error and returns as if nothing was found
serviceCatchSwallows(error) == [outcome |-> "null"]

\* the catch block of every service method: log the error, then throw it
serviceCatch(error) == Throw(error)

\* userRole !== 'super-admin' && appointment.userId !== userId
\* the owner rule without the super-admin's exemption
AccessRefusedOwnerOnly(appointment, userId, userRole) ==
  ~Has(appointment, "userId") \/ appointment.userId # userId

AccessRefused(appointment, userId, userRole) ==
  userRole # "super-admin" /\ (~Has(appointment, "userId") \/ appointment.userId # userId)

getAppointment(tbl, tenantId, appointmentId, userId, userRole) ==
  LET result == dbGet(tbl, primaryKey(tenantId, appointmentId))
  IN  IF ~result.found THEN [outcome |-> "null"]
      ELSE IF AccessRefused(result.Item, userId, userRole) THEN Throw("Access denied")
      ELSE [outcome |-> "value", value |-> result.Item]

\* the filter block of listAppointments sets ExpressionAttributeNames to
\* { '#status': 'status' } whenever any filter is supplied; DynamoDB rejects a
\* query that carries an expression attribute name no expression uses
NamesUnused(filters) ==
  /\ Has(filters, "startDate") \/ Has(filters, "endDate") \/ Has(filters, "status")
  /\ ~Has(filters, "status")

\* every role sent to the tenant index
listAppointmentsTenantWide(tbl, tenantId, userId, userRole, filters) ==
  IF NamesUnused(filters)
    THEN {Throw("ValidationException")}
    ELSE {[outcome |-> "value", value |-> items] :
            items \in dbQuery(tbl, "GSI1PK", "GSI1SK", tenantIndexPK(tenantId), filters)}

\* the set of results the query may produce
listAppointments(tbl, tenantId, userId, userRole, filters) ==
  IF NamesUnused(filters)
    THEN {Throw("ValidationException")}
    ELSE {[outcome |-> "value", value |-> items] :
            items \in IF userRole = "super-admin"
                        THEN dbQuery(tbl, "GSI1PK", "GSI1SK", tenantIndexPK(tenantId), filters)
                        ELSE dbQuery(tbl, "GSI2PK", "GSI2SK",
                                     ownerIndexPK(tenantId, userId), filters)}

\* the appointment object createAppointment builds and returns
NewAppointment(appointmentId, tenantId, userId, value, clock) ==
  Spread(
    [appointmentId |-> appointmentId, tenantId |-> tenantId, userId |-> userId,
     title |-> value.title, startTime |-> value.startTime, endTime |-> value.endTime,
     attendees |-> IF Has(value, "attendees") THEN value.attendees ELSE <<>>,
     status |-> value.status, reminderMinutes |-> value.reminderMinutes,
     createdAt |-> clock, updatedAt |-> clock,
     ttl |-> (clock \div 1000) + (365 * 24 * 60 * 60)],
    [k \in (DOMAIN value) \cap {"description", "location"} |-> value[k]])

\* the Item createAppointment puts
NewItem(appointment) ==
  Spread(
    Spread(primaryKey(appointment.tenantId, appointment.appointmentId),
      [GSI1PK |-> tenantIndexPK(appointment.tenantId),
       GSI1SK |-> indexSortKey(appointment.startTime),
       GSI2PK |-> ownerIndexPK(appointment.tenantId, appointment.userId),
       GSI2SK |-> indexSortKey(appointment.startTime)]),
    appointment)

\* appointmentId is the value uuidv4 returned; [result, table]
createAppointment(tbl, clock, appointmentId, tenantId, userId, appointmentData) ==
  LET checked == appointmentSchema(appointmentData)
  IN  IF ~checked.ok
        THEN [result |-> Throw("Validation error"), table |-> tbl]
        ELSE LET appointment ==
                   NewAppointment(appointmentId, tenantId, userId, checked.value, clock)
                 put == dbPut(tbl, NewItem(appointment))
             IN  IF put.ok
                   THEN [result |-> [outcome |-> "value", value |-> appointment],
                         table |-> put.table]
                   ELSE [result |-> Throw("ConditionalCheckFailedException"),
                         table |-> tbl]

\* an update that refuses to patch a cancelled or completed appointment
updateAppointmentReadTerminal(tbl, clock, tenantId, appointmentId, userId, userRole, updateData) ==
  LET checked == updateAppointmentSchema(updateData)
      existing == getAppointment(tbl, tenantId, appointmentId, userId, userRole)
  IN  IF ~checked.ok THEN Throw("Validation error")
      ELSE IF existing.outcome # "value" THEN existing
      ELSE IF AccessRefused(existing.value, userId, userRole) THEN Throw("Access denied")
      ELSE IF Has(existing.value, "status") /\ existing.value.status \in {"cancelled", "completed"}
        THEN Throw("Invalid status transition")
      ELSE [outcome |-> "proceed", value |-> checked.value, updatedAt |-> clock]

\* updateAppointment up to the await of dynamodb.update: "proceed" carries
\* the validated patch and the timestamp taken after the read
updateAppointmentRead(tbl, clock, tenantId, appointmentId, userId, userRole, updateData) ==
  LET checked == updateAppointmentSchema(updateData)
      existing == getAppointment(tbl, tenantId, appointmentId, userId, userRole)
  IN  IF ~checked.ok THEN Throw("Validation error")
      ELSE IF existing.outcome # "value" THEN existing
      ELSE IF AccessRefused(existing.value, userId, userRole) THEN Throw("Access denied")
      ELSE [outcome |-> "proceed", value |-> checked.value, updatedAt |-> clock]

\* an update that leaves updatedAt out of its SET
updateAppointmentWriteStale(tbl, tenantId, appointmentId, value, updatedAt) ==
  LET written == dbUpdate(tbl, primaryKey(tenantId, appointmentId), value)
  IN  [result |-> [outcome |-> "value", value |-> written.Attributes],
       table |-> written.table]

\* the UpdateItem call and the value updateAppointment returns; [result, table]
updateAppointmentWrite(tbl, tenantId, appointmentId, value, updatedAt) ==
  LET written == dbUpdate(tbl, primaryKey(tenantId, appointmentId),
                          Spread([updatedAt |-> updatedAt], value))
  IN  [result |-> [outcome |-> "value", value |-> written.Attributes],
       table |-> written.table]

\* updateAppointment when no other request runs between its two awaits
updateAppointment(tbl, clock, tenantId, appointmentId, userId, userRole, updateData) ==
  LET read == updateAppointmentRead(tbl, clock, tenantId, appointmentId, userId,
                                    userRole, updateData)
  IN  IF read.outcome = "proceed"
        THEN updateAppointmentWrite(tbl, tenantId, appointmentId, read.value, read.updatedAt)
        ELSE [result |-> read, table |-> tbl]

\* deleteAppointment up to the await of dynamodb.delete
deleteAppointmentRead(tbl, tenantId, appointmentId, userId, userRole) ==
  LET existing == getAppointment(tbl, tenantId, appointmentId, userId, userRole)
  IN  IF existing.outcome = "null" THEN [outcome |-> "false"]
      ELSE IF existing.outcome = "throw" THEN existing
      ELSE IF AccessRefused(existing.value, userId, userRole) THEN Throw("Access denied")
      ELSE [outcome |-> "proceed"]

\* the DeleteItem call and the value deleteAppointment returns; [result, table]
deleteAppointmentWrite(tbl, tenantId, appointmentId) ==
  [result |-> [outcome |-> "true"],
   table |-> dbDelete(tbl, primaryKey(tenantId, appointmentId))]

\* deleteAppointment when no other request runs between its two awaits
deleteAppointment(tbl, tenantId, appointmentId, userId, userRole) ==
  LET read == deleteAppointmentRead(tbl, tenantId, appointmentId, userId, userRole)
  IN  IF read.outcome = "proceed"
        THEN deleteAppointmentWrite(tbl, tenantId, appointmentId)
        ELSE [result |-> read, table |-> tbl]

(***************************************************************************)
(* The Lambda handler.                                                     *)
(***************************************************************************)
\* o.k in JavaScript: undefined when the key is absent
Prop(o, k) == IF Has(o, k) THEN o[k] ELSE "undefined"

\* ResponseHelper.error / ResponseHelper.success
Error(statusCode, message, details) ==
  [statusCode |-> statusCode, success |-> FALSE, message |-> message, details |-> details]

Success(statusCode) == [statusCode |-> statusCode, success |-> TRUE]

\* a handler that goes on whatever the guard answered
GateOpen(pathParameters, headers, clock) ==
  IF ~Has(pathParameters, "tenantId")
    THEN [proceed |-> FALSE, response |-> Error(400, "Tenant ID is required", "undefined")]
    ELSE [proceed |-> TRUE,
          authResult |-> validateRequest(headers, pathParameters.tenantId, clock)]

\* the handler before its switch: the tenant id of the path, then the guard
Gate(pathParameters, headers, clock) ==
  IF ~Has(pathParameters, "tenantId")
    THEN [proceed |-> FALSE, response |-> Error(400, "Tenant ID is required", "undefined")]
    ELSE LET authResult == validateRequest(headers, pathParameters.tenantId, clock)
         IN  IF ~authResult.isValid
               THEN [proceed |-> FALSE, authResult |-> authResult,
                     response |-> Error(401, "Unauthorized", authResult.error)]
               ELSE [proceed |-> TRUE, authResult |-> authResult]

\* the gate's outcomes over every Authorization header a request can carry
Gates(pathParameters) == {Gate(pathParameters, h, now) : h \in Headers}

\* the handler's switch for a request without an appointment id that is
\* neither a GET nor a POST, and for every request of another method
switchResponse(httpMethod, pathParameters) ==
  CASE httpMethod = "PUT" /\ ~Has(pathParameters, "appointmentId") ->
         Error(400, "Appointment ID is required for updates", "undefined")
    [] httpMethod = "DELETE" /\ ~Has(pathParameters, "appointmentId") ->
         Error(400, "Appointment ID is required for deletion", "undefined")
    [] OTHER -> Error(405, "Method not allowed", "undefined")

\* a route function that answers 200 when the service returned null
getResponseNullAsFound(result) ==
  IF result.outcome = "throw"
    THEN Error(500, "Failed to retrieve appointment", "undefined")
    ELSE Success(200)

\* the responses of the five route functions, by the service's result
getResponse(result) ==
  CASE result.outcome = "null" -> Error(404, "Appointment not found", "undefined")
    [] result.outcome = "throw" -> Error(500, "Failed to retrieve appointment", "undefined")
    [] OTHER -> Success(200)

listResponse(result) ==
  IF result.outcome = "throw"
    THEN Error(500, "Failed to retrieve appointments", "undefined")
    ELSE Success(200)

createResponse(result) ==
  IF result.outcome = "throw"
    THEN Error(500, "Failed to create appointment", "undefined")
    ELSE Success(201)

updateResponse(result) ==
  CASE result.outcome = "null" -> Error(404, "Appointment not found", "undefined")
    [] result.outcome = "throw" -> Error(500, "Failed to update appointment", "undefined")
    [] OTHER -> Success(200)

deleteResponse(result) ==
  CASE result.outcome = "false" -> Error(404, "Appointment not found", "undefined")
    [] result.outcome = "throw" -> Error(500, "Failed to delete appointment", "undefined")
    [] OTHER -> Success(200)

(***************************************************************************)
(* Requests.  A workload names the bodies and query strings the requests   *)
(* of a specification carry, how many requests may be suspended at once    *)
(* and how far the clock runs.                                             *)
(***************************************************************************)
Titles == {"", "Sync"}

\* a body that passes appointmentSchema, starting at the first instant
SoundBody == [title |-> "Sync", startTime |-> TimeStep, endTime |-> TimeStep * MaxTime]

\* parsed bodies of POST requests
CreateBodies ==
  {[title |-> ti, startTime |-> s, endTime |-> e] :
     ti \in Titles, s \in Instants, e \in Instants}
  \cup {Omit(SoundBody, {"title"}), Spread(SoundBody, [userId |-> "u1"])}

\* parsed bodies of PUT requests
UpdateBodies ==
  {Empty, [title |-> ""]}
  \cup {[endTime |-> e] : e \in Instants}
  \cup {[userId |-> "u1"], [tenantId |-> "t1"], [appointmentId |-> "a1", title |-> "Sync"]}

\* query string parameters of list requests
FilterSets ==
  {Empty, [status |-> "confirmed"], [userId |-> "u1"],
   [startDate |-> TimeStep * MaxTime], [endDate |-> TimeStep]}

Booking ==
  [creates |-> CreateBodies, updates |-> UpdateBodies, filters |-> FilterSets,
   inflight |-> MaxInFlight, clock |-> 0]

Idle == [op |-> "none"]

\* what `last` keeps of an answered request: the route, the path, whether
\* the guard ran and passed, whether the service was called and the table
\* touched, the service's result and the response
Answered(op, pathParameters, gate, service, touched, extra) ==
  Spread([op |-> op, pathParameters |-> pathParameters,
          guard |-> IF ~Has(gate, "authResult") THEN "not run"
                    ELSE IF gate.authResult.isValid THEN "passed" ELSE "failed",
          service |-> service, touched |-> touched], extra)

\* the status stored for an appointment when a request arrives
statusAt(tbl, tenantId, appointmentId) ==
  LET result == dbGet(tbl, primaryKey(tenantId, appointmentId))
  IN  IF result.found THEN Prop(result.Item, "status") ELSE "undefined"

\* uuidv4: an id no earlier call returned
uuidv4 == "a" \o ToString(Cardinality(issued) + 1)

(***************************************************************************)
(* Initial state and steps.  A request is answered in one step; an update  *)
(* or delete that passed its read may instead be suspended at the await of *)
(* its write while other requests run.  `last` holds an answer until the   *)
(* Lambda has returned it.                                                 *)
(***************************************************************************)
Init ==
  /\ table = {}
  /\ now = Epoch
  /\ issued = {}
  /\ inflight = {}
  /\ last = Idle

\* time passes
Tick(W) ==
  /\ last = Idle
  /\ now < Epoch + W.clock
  /\ now' = now + 1
  /\ UNCHANGED <<table, issued, inflight, last>>

\* the answer leaves the Lambda
Return ==
  /\ last # Idle
  /\ last' = Idle
  /\ UNCHANGED <<table, now, issued, inflight>>

\* a request whose path carries no tenant id, or that the guard refuses
Refused ==
  /\ last = Idle
  /\ \E pp \in {Empty} \cup {[tenantId |-> t] : t \in Tenants} :
       \E gate \in Gates(pp) :
         /\ ~gate.proceed
         /\ last' = Answered("refused", pp, gate, FALSE, FALSE,
                      [response |-> gate.response])
  /\ UNCHANGED <<table, now, issued, inflight>>

\* GET /tenants/{tenantId}/appointments/{appointmentId}
Get ==
  /\ last = Idle
  /\ \E t \in Tenants :
       \E gate \in Gates([tenantId |-> t]) :
         /\ gate.proceed
         /\ \E a \in AppointmentIds :
              LET result == getAppointment(table, t, a, Prop(gate.authResult, "userId"),
                                           Prop(gate.authResult, "role"))
              IN  last' = Answered("get", [tenantId |-> t, appointmentId |-> a], gate,
                            TRUE, TRUE,
                            [result |-> result, response |-> getResponse(result)])
  /\ UNCHANGED <<table, now, issued, inflight>>

\* GET /tenants/{tenantId}/appointments
List(W) ==
  /\ last = Idle
  /\ \E t \in Tenants :
       \E gate \in Gates([tenantId |-> t]) :
         /\ gate.proceed
         /\ \E filters \in W.filters :
              \E result \in listAppointments(table, t, Prop(gate.authResult, "userId"),
                                             Prop(gate.authResult, "role"), filters) :
                    last' = Answered("list", [tenantId |-> t], gate, TRUE, TRUE,
                              [keys |-> DOMAIN filters, result |-> result,
                               response |-> listResponse(result)])
  /\ UNCHANGED <<table, now, issued, inflight>>

\* POST /tenants/{tenantId}/appointments with a JSON body
Create(W) ==
  /\ last = Idle
  /\ Cardinality(issued) < NumIds
  /\ \E t \in Tenants :
       \E gate \in Gates([tenantId |-> t]) :
         /\ gate.proceed
         /\ \E body \in W.creates :
              LET valid == appointmentSchema(body).ok
                  done == createAppointment(table, now, uuidv4, t,
                            Prop(gate.authResult, "userId"), body)
              IN  /\ table' = done.table
                  /\ issued' = IF valid THEN issued \cup {uuidv4} ELSE issued
                  /\ last' = Answered("create", [tenantId |-> t], gate, TRUE, valid,
                               [result |-> done.result,
                                response |-> createResponse(done.result)])
  /\ UNCHANGED <<now, inflight>>

\* PUT /tenants/{tenantId}/appointments/{appointmentId}, answered without
\* another request running between its read and its write
Update(W) ==
  /\ last = Idle
  /\ \E t \in Tenants :
       \E gate \in Gates([tenantId |-> t]) :
         /\ gate.proceed
         /\ \E a \in AppointmentIds, body \in W.updates :
              LET done == updateAppointment(table, now, t, a,
                            Prop(gate.authResult, "userId"),
                            Prop(gate.authResult, "role"), body)
              IN  /\ table' = done.table
                  /\ last' = Answered("update", [tenantId |-> t, appointmentId |-> a],
                               gate, TRUE, updateAppointmentSchema(body).ok,
                               [keys |-> DOMAIN body,
                                prior |-> statusAt(table, t, a),
                                result |-> done.result,
                                response |-> updateResponse(done.result)])
  /\ UNCHANGED <<now, issued, inflight>>

\* the same request suspended at the await of its write
UpdateRead(W) ==
  /\ last = Idle
  /\ Cardinality(inflight) < W.inflight
  /\ \E t \in Tenants :
       \E gate \in Gates([tenantId |-> t]) :
         /\ gate.proceed
         /\ \E a \in AppointmentIds, body \in W.updates :
              LET read == updateAppointmentRead(table, now, t, a,
                            Prop(gate.authResult, "userId"),
                            Prop(gate.authResult, "role"), body)
              IN  /\ read.outcome = "proceed"
                  /\ inflight' = inflight \cup
                       {[op |-> "update",
                         pathParameters |-> [tenantId |-> t, appointmentId |-> a],
                         guard |-> gate.authResult.isValid,
                         value |-> read.value, updatedAt |-> read.updatedAt]}
  /\ UNCHANGED <<table, now, issued, last>>

\* the write of a suspended update, and its answer
UpdateWrite ==
  /\ last = Idle
  /\ \E r \in inflight :
       /\ r.op = "update"
       /\ LET done == updateAppointmentWrite(table, r.pathParameters.tenantId,
                        r.pathParameters.appointmentId, r.value, r.updatedAt)
          IN  /\ table' = done.table
              /\ last' = [op |-> "update", pathParameters |-> r.pathParameters,
                          guard |-> IF r.guard THEN "passed" ELSE "failed",
                          service |-> TRUE, touched |-> TRUE,
                          keys |-> DOMAIN r.value,
                          prior |-> statusAt(table, r.pathParameters.tenantId,
                                             r.pathParameters.appointmentId),
                          result |-> done.result,
                          response |-> updateResponse(done.result)]
       /\ inflight' = inflight \ {r}
  /\ UNCHANGED <<now, issued>>

\* DELETE /tenants/{tenantId}/appointments/{appointmentId}, answered without
\* another request running between its read and its write
Delete ==
  /\ last = Idle
  /\ \E t \in Tenants :
       \E gate \in Gates([tenantId |-> t]) :
         /\ gate.proceed
         /\ \E a \in AppointmentIds :
              LET done == deleteAppointment(table, t, a,
                            Prop(gate.authResult, "userId"),
                            Prop(gate.authResult, "role"))
              IN  /\ table' = done.table
                  /\ last' = Answered("delete", [tenantId |-> t, appointmentId |-> a],
                               gate, TRUE, TRUE,
                               [result |-> done.result,
                                response |-> deleteResponse(done.result)])
  /\ UNCHANGED <<now, issued, inflight>>

\* the same request suspended at the await of its write
DeleteRead(W) ==
  /\ last = Idle
  /\ Cardinality(inflight) < W.inflight
  /\ \E t \in Tenants :
       \E gate \in Gates([tenantId |-> t]) :
         /\ gate.proceed
         /\ \E a \in AppointmentIds :
              LET read == deleteAppointmentRead(table, t, a,
                            Prop(gate.authResult, "userId"),
                            Prop(gate.authResult, "role"))
              IN  /\ read.outcome = "proceed"
                  /\ inflight' = inflight \cup
                       {[op |-> "delete",
                         pathParameters |-> [tenantId |-> t, appointmentId |-> a],
                         guard |-> gate.authResult.isValid]}
  /\ UNCHANGED <<table, now, issued, last>>

\* the write of a suspended delete, and its answer
DeleteWrite ==
  /\ last = Idle
  /\ \E r \in inflight :
       /\ r.op = "delete"
       /\ LET done == deleteAppointmentWrite(table, r.pathParameters.tenantId,
                        r.pathParameters.appointmentId)
          IN  /\ table' = done.table
              /\ last' = [op |-> "delete", pathParameters |-> r.pathParameters,
                          guard |-> IF r.guard THEN "passed" ELSE "failed",
                          service |-> TRUE, touched |-> TRUE,
                          result |-> done.result, response |-> deleteResponse(done.result)]
       /\ inflight' = inflight \ {r}
  /\ UNCHANGED <<now, issued>>

Next ==
  \/ Return
  \/ Refused
  \/ Get
  \/ List(Booking)
  \/ Create(Booking)
  \/ Update(Booking)
  \/ UpdateRead(Booking)
  \/ UpdateWrite
  \/ Delete
  \/ DeleteRead(Booking)
  \/ DeleteWrite

Spec == Init /\ [][Next]_vars

(***************************************************************************)
(* The same requests over a running clock: one body, an empty patch and a  *)
(* patch of the status.                                                    *)
(***************************************************************************)
Timed ==
  [creates |-> {SoundBody}, updates |-> {Empty, [status |-> "confirmed"]},
   filters |-> {Empty}, inflight |-> MaxInFlight, clock |-> MaxClock]

NextTimed ==
  \/ Tick(Timed)
  \/ Return
  \/ Refused
  \/ Get
  \/ List(Timed)
  \/ Create(Timed)
  \/ Update(Timed)
  \/ UpdateRead(Timed)
  \/ UpdateWrite
  \/ Delete
  \/ DeleteRead(Timed)
  \/ DeleteWrite

SpecTimed == Init /\ [][NextTimed]_vars

(***************************************************************************)
(* Requests that move appointments: two bodies that start at different     *)
(* instants, and a patch of startTime to an instant after both.            *)
(***************************************************************************)
\* a body that passes appointmentSchema, starting at the last instant
LateBody ==
  [title |-> "Sync", startTime |-> TimeStep * MaxTime, endTime |-> TimeStep * (MaxTime + 1)]

Rescheduling ==
  [creates |-> {SoundBody, LateBody},
   updates |-> {[startTime |-> TimeStep * (MaxTime + 1)]},
   filters |-> {Empty}, inflight |-> MaxInFlight, clock |-> 0]

NextRescheduling ==
  \/ Return
  \/ Refused
  \/ Get
  \/ List(Rescheduling)
  \/ Create(Rescheduling)
  \/ Update(Rescheduling)
  \/ UpdateRead(Rescheduling)
  \/ UpdateWrite
  \/ Delete
  \/ DeleteRead(Rescheduling)
  \/ DeleteWrite

SpecRescheduling == Init /\ [][NextRescheduling]_vars

(***************************************************************************)
(* The handler's remaining paths: a create whose generated id is one that  *)
(* an earlier call already returned, a table operation that fails, and the *)
(* requests the switch answers itself.                                     *)
(***************************************************************************)
\* POST /tenants/{tenantId}/appointments when uuidv4 returns an id it has
\* returned before
CreateAgain(W) ==
  /\ last = Idle
  /\ \E id \in issued, t \in Tenants :
       \E gate \in Gates([tenantId |-> t]) :
         /\ gate.proceed
         /\ \E body \in W.creates :
              LET done == createAppointment(table, now, id, t,
                            Prop(gate.authResult, "userId"), body)
              IN  /\ table' = done.table
                  /\ last' = Answered("create", [tenantId |-> t], gate, TRUE,
                               appointmentSchema(body).ok,
                               [id |-> id, result |-> done.result,
                                response |-> createResponse(done.result)])
  /\ UNCHANGED <<now, issued, inflight>>

\* a request that passed the guard and whose table operation fails: the
\* rejected promise is caught by the service method's catch block, and what
\* that throws by the route function's; a failed operation changes nothing
Outage(W) ==
  /\ last = Idle
  /\ \E t \in Tenants :
       \E gate \in Gates([tenantId |-> t]) :
         /\ gate.proceed
         /\ \E op \in {"get", "list", "create", "update", "delete"}, a \in AppointmentIds :
              LET result == serviceCatch("ServiceUnavailable")
                  reached ==
                    CASE op = "create" -> \E body \in W.creates : appointmentSchema(body).ok
                      [] op = "update" -> \E body \in W.updates : updateAppointmentSchema(body).ok
                      [] OTHER -> TRUE
                  pathParameters ==
                    IF op \in {"list", "create"} THEN [tenantId |-> t]
                    ELSE [tenantId |-> t, appointmentId |-> a]
                  response ==
                    CASE op = "get" -> getResponse(result)
                      [] op = "list" -> listResponse(result)
                      [] op = "create" -> createResponse(result)
                      [] op = "update" -> updateResponse(result)
                      [] OTHER -> deleteResponse(result)
              IN  /\ reached
                  /\ last' = Answered(op, pathParameters, gate, TRUE, TRUE,
                               [storage |-> "failed", result |-> result,
                                response |-> response])
  /\ UNCHANGED <<table, now, issued, inflight>>

\* PUT or DELETE on /tenants/{tenantId}/appointments, and requests of a
\* method the switch has no case for
Unrouted ==
  /\ last = Idle
  /\ \E t \in Tenants :
       \E gate \in Gates([tenantId |-> t]) :
         /\ gate.proceed
         /\ \E httpMethod \in {"PUT", "DELETE", "PATCH", "OPTIONS"},
               pathParameters \in {[tenantId |-> t]} \cup
                 {[tenantId |-> t, appointmentId |-> a] : a \in AppointmentIds} :
              /\ httpMethod \in {"PUT", "DELETE"} => ~Has(pathParameters, "appointmentId")
              /\ last' = Answered("unrouted", pathParameters, gate, FALSE, FALSE,
                           [httpMethod |-> httpMethod,
                            response |-> switchResponse(httpMethod, pathParameters)])
  /\ UNCHANGED <<table, now, issued, inflight>>

Handling ==
  [creates |-> {SoundBody}, updates |-> {[status |-> "cancelled"]},
   filters |-> {Empty}, inflight |-> 0, clock |-> 0]

NextHandling ==
  \/ Return
  \/ Refused
  \/ Get
  \/ Create(Handling)
  \/ CreateAgain(Handling)
  \/ Update(Handling)
  \/ Delete
  \/ Outage(Handling)
  \/ Unrouted

SpecHandling == Init /\ [][NextHandling]_vars

(***************************************************************************)
(* Updates that overlap: two updates may be suspended at the await of      *)
(* their writes at once, with patches that set the same field to different *)
(* values, over a running clock.  No request deletes, and every update is  *)
(* taken through its two steps.                                            *)
(***************************************************************************)
Overlapping ==
  [creates |-> {SoundBody},
   updates |-> {[status |-> "confirmed"], [status |-> "cancelled", location |-> "Room 1"]},
   filters |-> {Empty}, inflight |-> MaxInFlight + 1, clock |-> MaxClock]

NextOverlapping ==
  \/ Tick(Overlapping)
  \/ Return
  \/ Create(Overlapping)
  \/ UpdateRead(Overlapping)
  \/ UpdateWrite

SpecOverlapping == Init /\ [][NextOverlapping]_vars

(***************************************************************************)
(* The keys alone: two pairs of a tenant id and an appointment or user id  *)
(* are drawn at the start, among them ids that contain the separators of   *)
(* the key templates, and the keys of both pairs are built.                *)
(***************************************************************************)
KeyIds ==
  {"t1", "a1", "u1", "t1#APPOINTMENT#a1", "a1#APPOINTMENT#a1", "t1#USER#u1",
   "u1#USER#u1"}

KeyPairs == {[tenantId |-> t, id |-> i] : t \in KeyIds, i \in KeyIds}

InitKeys ==
  /\ table = {}
  /\ now = Epoch
  /\ issued = {}
  /\ inflight = {}
  /\ last \in {[op |-> "keys", a |-> a, b |-> b] : a \in KeyPairs, b \in KeyPairs}

\* the key templates applied to both pairs, the id taken as the appointment
\* id in the primary key and as the user id in the owner-index key
BuildKeys ==
  /\ ~Has(last, "primary")
  /\ last' = Spread(last,
       [primary |-> [a |-> primaryKey(last.a.tenantId, last.a.id),
                     b |-> primaryKey(last.b.tenantId, last.b.id)],
        owner |-> [a |-> ownerIndexPK(last.a.tenantId, last.a.id),
                   b |-> ownerIndexPK(last.b.tenantId, last.b.id)],
        tenant |-> [a |-> tenantIndexPK(last.a.tenantId),
                    b |-> tenantIndexPK(last.b.tenantId)]])
  /\ UNCHANGED <<table, now, issued, inflight>>

SpecKeys == InitKeys /\ [][BuildKeys]_vars

(***************************************************************************)
(* Changes of status: every patch that sets the status alone, to each of   *)
(* its four values.                                                        *)
(***************************************************************************)
Transitions ==
  [creates |-> {SoundBody}, updates |-> {[status |-> st] : st \in Statuses},
   filters |-> {Empty}, inflight |-> 0, clock |-> 0]

NextTransitions ==
  \/ Return
  \/ Create(Transitions)
  \/ Update(Transitions)
  \/ Delete

SpecTransitions == Init /\ [][NextTransitions]_vars

(***************************************************************************)
(* The guard alone: a request's Authorization header and the tenant id of  *)
(* its path are drawn at the start, and validateRequest is applied.        *)
(***************************************************************************)
InitAuth ==
  /\ table = {}
  /\ now \in Clock
  /\ issued = {}
  /\ inflight = {}
  /\ last \in {[op |-> "validateRequest", headers |-> h, requestedTenantId |-> t] :
                 h \in Headers, t \in Tenants}

Authenticate ==
  /\ ~Has(last, "authResult")
  /\ last' = Spread(last, [authResult |->
                validateRequest(last.headers, last.requestedTenantId, now)])
  /\ UNCHANGED <<table, now, issued, inflight>>

SpecAuth == InitAuth /\ [][Authenticate]_vars

(***************************************************************************)
(* Properties.                                                             *)
(***************************************************************************)
Roles == {"super-admin", "tenant-admin", "tenant-user"}

\* the items that are appointment records
Records(tbl) == {i \in tbl : Has(i, "tenantId") /\ Has(i, "appointmentId") /\ Has(i, "userId")}

\* the bodies of PUT requests that updateAppointmentSchema accepts
SoundUpdates == {b \in UpdateBodies : DOMAIN b # {} /\ DOMAIN b \subseteq SchemaKeys
                                      /\ (Has(b, "title") => b.title # "")}

\* tokens of identities whose role is the plain user's, bound to tenant t
UserHeaders(t) ==
  {[Authorization |-> [raw |-> "jwt", payload |-> Payload(u, g, t)]] :
     u \in Users, g \in {{}, {"tenant-user"}}}

C2_CrossTenantMiss ==
  \A r \in Records(table), b \in Tenants, u \in Users, role \in Roles :
    b = r.tenantId \/
    /\ getAppointment(table, b, r.appointmentId, u, role) = [outcome |-> "null"]
    /\ \A body \in SoundUpdates :
         updateAppointment(table, now, b, r.appointmentId, u, role, body)
           = [result |-> [outcome |-> "null"], table |-> table]
    /\ deleteAppointment(table, b, r.appointmentId, u, role)
         = [result |-> [outcome |-> "false"], table |-> table]

\* a get through another tenant than the record's was answered not-found
C2_Witness ==
  /\ last.op = "get"
  /\ last.result.outcome = "null"
  /\ \E r \in Records(table) :
       /\ r.appointmentId = last.pathParameters.appointmentId
       /\ r.tenantId # last.pathParameters.tenantId

\* C3: for a token that verifies, validateRequest grants access iff the
\* identity is a super-admin, or is a tenant-admin or tenant-user whose
\* tenant is the requested one; a grant carries the requested tenant id
\* and the role of highest precedence among the identity's groups.
C3_TenantRule ==
  (Has(last, "authResult") /\ Has(last.headers, "Authorization")
     /\ verifyToken(last.headers.Authorization, now).ok) =>
    LET payload == last.headers.Authorization.payload
        groups == payload["cognito:groups"]
        granted == \/ "super-admin" \in groups
                   \/ /\ groups \cap {"tenant-admin", "tenant-user"} # {}
                      /\ payload["custom:tenant_id"] = last.requestedTenantId
    IN  /\ last.authResult.isValid <=> granted
        /\ ~granted => last.authResult =
                         [isValid |-> FALSE, error |-> "Access denied to tenant"]
        /\ granted =>
             /\ last.authResult.tenantId = last.requestedTenantId
             /\ last.authResult.userId = payload["sub"]
             /\ last.authResult.role =
                  IF "super-admin" \in groups THEN "super-admin"
                  ELSE IF "tenant-admin" \in groups THEN "tenant-admin"
                  ELSE "tenant-user"

\* a tenant-admin who is also a tenant-user was granted its own tenant
C3_Witness ==
  /\ Has(last, "authResult")
  /\ last.authResult.isValid
  /\ last.authResult.role = "tenant-admin"
  /\ last.headers.Authorization.payload["cognito:groups"] = {"tenant-admin", "tenant-user"}

\* C4: the service is called and the table touched only for a request that
\* passed the guard, suspended requests included; a request the guard
\* refused is answered 401 'Unauthorized'.
C4_HardGate ==
  /\ \A r \in inflight : r.guard
  /\ last # Idle =>
       /\ (last.service \/ last.touched) => last.guard = "passed"
       /\ last.guard = "failed" =>
            /\ last.response.statusCode = 401
            /\ last.response.message = "Unauthorized"

\* a request was refused by the guard while the table holds records
C4_Witness ==
  /\ last.op = "refused"
  /\ last.guard = "failed"
  /\ last.response.details = "Access denied to tenant"
  /\ Records(table) # {}

C6_TenantAdminFullAccess ==
  \A r \in Records(table), u \in Users :
    /\ getAppointment(table, r.tenantId, r.appointmentId, u, "tenant-admin").outcome
         = "value"
    /\ deleteAppointment(table, r.tenantId, r.appointmentId, u, "tenant-admin")
         .result.outcome = "true"
    /\ \A listed \in listAppointments(table, r.tenantId, u, "tenant-admin", Empty) :
         /\ listed.outcome = "value"
         /\ \E n \in DOMAIN listed.value : listed.value[n] = r

\* C7: right after a successful create, a get of the returned
\* id by the creator returns exactly the record create returned.
C7_ReadYourWrite ==
  (last.op = "create" /\ last.result.outcome = "value") =>
    LET created == last.result.value
    IN  \A role \in Roles :
          getAppointment(table, created.tenantId, created.appointmentId,
                         created.userId, role)
            = [outcome |-> "value", value |-> created]

\* the bodies of POST requests the schema must refuse
Unsound(body) ==
  \/ ~Has(body, "title")
  \/ body.title = ""
  \/ body.endTime <= body.startTime
  \/ ~(DOMAIN body \subseteq SchemaKeys)

\* C8: a create whose end is not after its start, or whose body breaks the
\* schema otherwise, throws a validation error and writes nothing.
C8_InvalidCreateWritesNothing ==
  \A t \in Tenants, u \in Users, body \in CreateBodies :
    Unsound(body) =>
      createAppointment(table, now, uuidv4, t, u, body)
        = [result |-> Throw("Validation error"), table |-> table]

\* a create was refused with a validation error while the table holds records
C8_Witness ==
  /\ last.op = "create"
  /\ last.result = Throw("Validation error")
  /\ ~last.touched
  /\ Records(table) # {}

\* C9: every stored appointment ends strictly after it starts.
C9_TimeOrder ==
  \A i \in table : (Has(i, "startTime") /\ Has(i, "endTime")) => i.endTime > i.startTime

IdentityFields == {"appointmentId", "tenantId", "userId"}

\* C10: an item that a step leaves in the table keeps its appointmentId,
\* tenantId and userId, and a created item carries the ids of its key.
C10_IdentityImmutable ==
  [][\A t \in Tenants, a \in AppointmentIds :
       LET before == dbGet(table, primaryKey(t, a))
           after == dbGet(table', primaryKey(t, a))
       IN  /\ (before.found /\ after.found) =>
                \A f \in IdentityFields : Prop(after.Item, f) = Prop(before.Item, f)
           /\ (~before.found /\ after.found /\ last'.op = "create") =>
                /\ after.Item.tenantId = t
                /\ after.Item.appointmentId = a]_vars

\* an update naming the owner field of a record of another owner was
\* refused and the record is still there
C10_Witness ==
  /\ last.op = "update"
  /\ last.keys = {"userId"}
  /\ last.result = Throw("Validation error")
  /\ \E r \in Records(table) :
       /\ r.appointmentId = last.pathParameters.appointmentId
       /\ r.tenantId = last.pathParameters.tenantId
       /\ r.userId = "u2"

\* the item of the table tbl that an answered request addressed
Addressed(tbl, pathParameters) ==
  dbGet(tbl, primaryKey(pathParameters.tenantId, pathParameters.appointmentId))

\* the update answered in this step, when it wrote the item it addressed
UpdatedInStep ==
  /\ last'.op = "update"
  /\ last'.result.outcome = "value"
  /\ Addressed(table, last'.pathParameters).found

\* C11: every item that carries createdAt has updatedAt >= createdAt, a step
\* never changes an item's createdAt, and an update answered without
\* another request running between its read and its write sets updatedAt to
\* the time of the update, which is no earlier than the value the item had.
C11_TimestampsOfUnracedUpdates ==
  [][/\ \A i \in table' :
          (Has(i, "createdAt") /\ Has(i, "updatedAt")) => i.updatedAt >= i.createdAt
     /\ \A t \in Tenants, a \in AppointmentIds :
          LET before == dbGet(table, primaryKey(t, a))
              after == dbGet(table', primaryKey(t, a))
          IN  (before.found /\ after.found /\ Has(before.Item, "createdAt")) =>
                 /\ Has(after.Item, "createdAt")
                 /\ after.Item.createdAt = before.Item.createdAt
     /\ (UpdatedInStep /\ inflight' = inflight) =>
          LET before == Addressed(table, last'.pathParameters).Item
              after == Addressed(table', last'.pathParameters).Item
          IN  /\ after.updatedAt = now
              /\ after.updatedAt >= before.updatedAt]_vars

\* an update has moved updatedAt past createdAt
C11_Witness ==
  /\ last.op = "update"
  /\ last.result.outcome = "value"
  /\ Has(last.result.value, "createdAt")
  /\ last.result.value.updatedAt > last.result.value.createdAt
  /\ Addressed(table, last.pathParameters).Item = last.result.value

\* C11 as stated: every stored item has updatedAt >= createdAt, and no
\* successful update sets updatedAt to an earlier value than the item had.
C11_Timestamps ==
  [][/\ \A i \in table' :
          Has(i, "updatedAt") => (Has(i, "createdAt") /\ i.updatedAt >= i.createdAt)
     /\ UpdatedInStep =>
          Addressed(table', last'.pathParameters).Item.updatedAt
            >= Addressed(table, last'.pathParameters).Item.updatedAt]_vars

\* the round trip create, update of the status by the owner at time clock, get
RoundTrip(created, clock, role) ==
  LET updated == updateAppointment(table, clock, created.tenantId, created.appointmentId,
                                   created.userId, role, [status |-> "confirmed"])
  IN  [updated |-> updated.result,
       got |-> getAppointment(updated.table, created.tenantId, created.appointmentId,
                              created.userId, role)]

\* C12: create, then update {status: 'confirmed'} by the owner, then get
\* yields status 'confirmed' and the time of the update as updatedAt, which
\* is at least the updatedAt create returned and is greater exactly when
\* the clock has advanced between the two calls.
C12_StatusRoundTripByClock ==
  (last.op = "create" /\ last.result.outcome = "value") =>
    \A clock \in Clock, role \in Roles :
      clock >= now =>
        LET created == last.result.value
            trip == RoundTrip(created, clock, role)
        IN  /\ trip.updated.outcome = "value"
            /\ trip.got.outcome = "value"
            /\ trip.got.value.status = "confirmed"
            /\ trip.got.value.updatedAt = clock
            /\ trip.got.value.updatedAt >= created.updatedAt
            /\ (trip.got.value.updatedAt > created.updatedAt) <=> (clock > now)

\* the status of a record was confirmed after the clock had advanced
C12_Witness ==
  /\ last.op = "update"
  /\ last.keys = {"status"}
  /\ last.result.outcome = "value"
  /\ last.result.value.status = "confirmed"
  /\ Has(last.result.value, "createdAt")
  /\ last.result.value.updatedAt > last.result.value.createdAt

\* C12 as stated: the round trip yields an updatedAt strictly greater than
\* the one create returned.
C12_StatusRoundTrip ==
  (last.op = "create" /\ last.result.outcome = "value") =>
    \A clock \in Clock, role \in Roles :
      clock >= now =>
        LET created == last.result.value
            trip == RoundTrip(created, clock, role)
        IN  /\ trip.got.outcome = "value"
            /\ trip.got.value.status = "confirmed"
            /\ trip.got.value.updatedAt > created.updatedAt

\* C13: an update with the empty patch is refused with a validation error,
\* whoever asks and whether or not the record exists, and the table (hence
\* startTime, endTime and the index keys of every item) is left as it was.
C13_EmptyPatchRefused ==
  \A t \in Tenants, a \in AppointmentIds, u \in Users, role \in Roles :
    updateAppointment(table, now, t, a, u, role, Empty)
      = [result |-> Throw("Validation error"), table |-> table]

\* an update of an existing record with the empty patch was refused
C13_Witness ==
  /\ last.op = "update"
  /\ last.keys = {}
  /\ last.result = Throw("Validation error")
  /\ Addressed(table, last.pathParameters).found

\* C13 as stated: on an existing record the empty patch succeeds for an
\* authorized caller, and a second one returns the same record apart from
\* updatedAt.
C13_NoOpUpdate ==
  \A r \in Records(table), role \in Roles :
    LET first == updateAppointment(table, now, r.tenantId, r.appointmentId,
                                   r.userId, role, Empty)
        second == updateAppointment(first.table, now, r.tenantId, r.appointmentId,
                                    r.userId, role, Empty)
    IN  /\ first.result.outcome = "value"
        /\ second.result.outcome = "value"
        /\ Omit(second.result.value, {"updatedAt"}) = Omit(first.result.value, {"updatedAt"})

\* C14: a delete of an id with no item under the requested tenant returns
\* false and leaves the table as it was; after a delete that returned true
\* the item is gone, a get of it returns null for everyone and a second
\* delete returns false.
C14_IdempotentDelete ==
  \A t \in Tenants, a \in AppointmentIds, u \in Users, role \in Roles :
    LET deleted == deleteAppointment(table, t, a, u, role)
    IN  /\ ~dbGet(table, primaryKey(t, a)).found =>
             deleted = [result |-> [outcome |-> "false"], table |-> table]
        /\ deleted.result.outcome = "true" =>
             /\ ~dbGet(deleted.table, primaryKey(t, a)).found
             /\ \A v \in Users, other \in Roles :
                  /\ getAppointment(deleted.table, t, a, v, other) = [outcome |-> "null"]
                  /\ deleteAppointment(deleted.table, t, a, v, other)
                       = [result |-> [outcome |-> "false"], table |-> deleted.table]

\* a delete has removed a record while another record stays
C14_Witness ==
  /\ last.op = "delete"
  /\ last.result.outcome = "true"
  /\ ~Addressed(table, last.pathParameters).found
  /\ Records(table) # {}

\* the stored appointments of tenant t that role may list for user u
Scoped(tbl, t, u, role) ==
  {r \in Records(tbl) : r.tenantId = t /\ (role = "super-admin" \/ r.userId = u)}

\* the items of a sequence
Range(seq) == {seq[n] : n \in DOMAIN seq}

C16_Chronological ==
  \A t \in Tenants, u \in Users, role \in {"super-admin", "tenant-user"} :
    \A listed \in listAppointments(table, t, u, role, Empty) :
      /\ listed.outcome = "value"
      /\ \A m, n \in DOMAIN listed.value :
           m < n => listed.value[m].startTime <= listed.value[n].startTime

\* C17: the sort keys of an item on the tenant index and on the owner index
\* are the encoding of the item's startTime.
C17_IndexKeysFollowStart ==
  \A i \in table :
    /\ Has(i, "GSI1SK") => i.GSI1SK = indexSortKey(i.startTime)
    /\ Has(i, "GSI2SK") => i.GSI2SK = indexSortKey(i.startTime)

\* C18: an item is found at the primary key of (tenant, id) iff it is in
\* the tenant's partition of the tenant index iff it is in its owner's
\* partition of the owner index.
C18_ThreePaths ==
  \A t \in Tenants, a \in AppointmentIds :
    LET byKey == AtKey(table, primaryKey(t, a))
        onTenantIndex ==
          byKey \cap Partition(table, "GSI1PK", "GSI1SK", tenantIndexPK(t))
        onOwnerIndex ==
          {i \in byKey : \E u \in Users :
             i \in Partition(table, "GSI2PK", "GSI2SK", ownerIndexPK(t, u))}
    IN  /\ byKey = onTenantIndex
        /\ byKey = onOwnerIndex

\* the query strings that combine the three filters
FilterCombos ==
  {Spread(Spread(from, to), st) :
     from \in {Empty} \cup {[startDate |-> d] : d \in Instants},
     to \in {Empty} \cup {[endDate |-> d] : d \in Instants},
     st \in {Empty} \cup {[status |-> x] : x \in Statuses}}

\* C19: for every combination of startDate, endDate and status a list
\* returns exactly the records of the caller's scope that satisfy every
\* supplied condition.
C19_FilterSemantics ==
  \A t \in Tenants, u \in Users, role \in Roles, f \in FilterCombos :
    \A listed \in listAppointments(table, t, u, role, f) :
      /\ listed.outcome = "value"
      /\ Range(listed.value) =
           {r \in Scoped(table, t, u, role) :
              /\ Has(f, "startDate") => r.startTime >= f.startDate
              /\ Has(f, "endDate") => r.startTime <= f.endDate
              /\ Has(f, "status") => r.status = f.status}

\* C20: the results of a list are the same with and without a userId
\* parameter, whatever its value, for every caller, tenant and other
\* filters.  (The results depend on the table only, and every table is
\* the table of a state between two requests: Return leaves it as it is.)
C20_UserIdFilterIgnored ==
  last = Idle =>
  \A t \in Tenants, u \in Users, role \in Roles, v \in Users :
    \A filters \in FilterSets \cup FilterCombos :
      listAppointments(table, t, u, role, Spread(filters, [userId |-> v]))
        = listAppointments(table, t, u, role, Omit(filters, {"userId"}))

\* a list that named user u1 was answered a record of another owner
C20_Witness ==
  /\ last.op = "list"
  /\ "userId" \in last.keys
  /\ last.result.outcome = "value"
  /\ \E n \in DOMAIN last.result.value : last.result.value[n].userId = "u2"

\* C21: a create never overwrites.  Whenever a create resolves to a primary
\* key at which an item is stored, the call throws, the response is not a
\* success and the table is left exactly as it was; a create that succeeds
\* found no item at its key and adds exactly its own item.
C21_CreateNeverOverwrites ==
  [][(last = Idle /\ last'.op = "create") =>
       LET id == IF Has(last', "id") THEN last'.id ELSE uuidv4
           key == primaryKey(last'.pathParameters.tenantId, id)
       IN  /\ AtKey(table, key) # {} =>
                /\ last'.result.outcome = "throw"
                /\ last'.response.statusCode \notin 200..299
                /\ table' = table
           /\ last'.result.outcome = "value" =>
                /\ AtKey(table, key) = {}
                /\ table \subseteq table'
                /\ table' \ table = {NewItem(last'.result.value)}
                /\ last'.result.value.appointmentId = id]_vars

\* a second create for a (tenantId, appointmentId) whose record is stored
\* was refused by the condition
C21_Witness ==
  /\ last.op = "create"
  /\ Has(last, "id")
  /\ last.result = Throw("ConditionalCheckFailedException")
  /\ \E r \in Records(table) :
       /\ r.appointmentId = last.id
       /\ r.tenantId = last.pathParameters.tenantId

\* C22: last write wins.  When the write of a suspended update is applied
\* to an existing record, the update is answered with the record (it is not
\* rejected, whatever other updates are suspended or were applied since its
\* read), every field of its patch and its updatedAt are stored with its
\* values, every other attribute keeps the value it had, and the other
\* suspended updates stay as they were; a suspended update on a record is
\* never a reason for the read of another update to fail.
C22_LastWriteWins ==
  [][\A r \in inflight \ inflight' :
       LET key == primaryKey(r.pathParameters.tenantId, r.pathParameters.appointmentId)
           old == dbGet(table, key)
           new == dbGet(table', key)
       IN  (r.op = "update" /\ old.found) =>
             /\ inflight' = inflight \ {r}
             /\ last'.result.outcome = "value"
             /\ last'.response = Success(200)
             /\ new.found
             /\ last'.result.value = new.Item
             /\ \A k \in DOMAIN r.value : new.Item[k] = r.value[k]
             /\ new.Item.updatedAt = r.updatedAt
             /\ DOMAIN new.Item = DOMAIN old.Item \cup DOMAIN r.value
             /\ \A k \in DOMAIN old.Item \ (DOMAIN r.value \cup {"updatedAt"}) :
                  new.Item[k] = old.Item[k]
             /\ \A u \in Users, body \in Overlapping.updates :
                  updateAppointmentRead(table', now', r.pathParameters.tenantId,
                      r.pathParameters.appointmentId, u, "super-admin", body).outcome
                    = "proceed"]_vars

\* the write of one update was applied over the status another update had
\* stored, while a third update of the same record is still suspended with
\* a different status
C22_Witness ==
  /\ last.op = "update"
  /\ last.result.outcome = "value"
  /\ last.result.value.status = "confirmed"
  /\ Has(last.result.value, "location")
  /\ \E r \in inflight :
       /\ r.pathParameters = last.pathParameters
       /\ r.value.status = "cancelled"
  /\ \E i \in table :
       /\ i.PK = primaryKey(last.pathParameters.tenantId,
                            last.pathParameters.appointmentId).PK
       /\ i.status = "confirmed"

\* C23: primaryKey is injective.  Two pairs (tenantId, appointmentId) that
\* yield the same PK and the same SK are the same pair, also when an id
\* contains the text '#APPOINTMENT#'.
C23_PrimaryKeyInjective ==
  Has(last, "primary") =>
    /\ last.primary.a = last.primary.b => last.a = last.b
    /\ last.primary.a.PK =
         "TENANT#" \o last.a.tenantId \o "#APPOINTMENT#" \o last.a.id
    /\ last.primary.a.SK = "APPOINTMENT#" \o last.a.id

\* two distinct pairs whose PK is the same string and whose SK differs
C23_Witness ==
  /\ Has(last, "primary")
  /\ last.a = [tenantId |-> "t1#APPOINTMENT#a1", id |-> "a1"]
  /\ last.b = [tenantId |-> "t1", id |-> "a1#APPOINTMENT#a1"]
  /\ last.primary.a.PK = last.primary.b.PK
  /\ last.primary.a.SK # last.primary.b.SK

\* C24: validateRequest fails and returns no identity for every decodable
\* token whose expiry is not strictly after the current time, a token
\* without an expiry included ('Invalid token', or 'Access denied to tenant'
\* where the tenant rule would refuse the token anyway).
C24_CredentialExpiry ==
  (Has(last, "authResult") /\ Has(last.headers, "Authorization")
     /\ last.headers.Authorization.raw = "jwt") =>
    LET payload == last.headers.Authorization.payload
    IN  (~Has(payload, "exp") \/ payload["exp"] <= now \div 1000) =>
          /\ ~last.authResult.isValid
          /\ ~Has(last.authResult, "userId")
          /\ last.authResult.error \in {"Invalid token", "Access denied to tenant"}

\* C25: a create or an update that the service rejected with a validation
\* error is answered with a 4xx status, and the table is untouched.
C25_ValidationIsClientError ==
  (last.op \in {"create", "update"} /\ last.result = Throw("Validation error")) =>
    /\ last.response.statusCode \in 400..499
    /\ ~last.response.success

\* C26: storage failures are never swallowed.  A request whose table
\* operation failed ends with the service method throwing (no record, list,
\* null, true or false is returned) and is answered with a 500 error
\* response; every answered request carries exactly one response.
C26_StorageFailureSurfaces ==
  /\ last # Idle => Has(last, "response") /\ Has(last.response, "statusCode")
  /\ Has(last, "storage") =>
       /\ last.result.outcome = "throw"
       /\ last.result.error = "ServiceUnavailable"
       /\ last.response.statusCode = 500
       /\ ~last.response.success

\* a delete of a stored record whose table operation failed
C26_Witness ==
  /\ Has(last, "storage")
  /\ last.op = "delete"
  /\ last.response.statusCode = 500
  /\ Addressed(table, last.pathParameters).found

\* C27: status is an unconstrained field.  A create without a status stores
\* 'scheduled'; for every stored record, whatever its status, its owner's
\* update to each of the four statuses succeeds and stores that status; and
\* no update of a record's status was answered with anything but the record
\* or the refusal of a user who is neither owner nor super-admin.
C27_StatusUnconstrained ==
  /\ \A r \in Records(table), st \in Statuses :
       LET done == updateAppointment(table, now, r.tenantId, r.appointmentId,
                                     r.userId, "tenant-user", [status |-> st])
       IN  /\ r.status \in Statuses
           /\ done.result.outcome = "value"
           /\ done.result.value.status = st
           /\ updateResponse(done.result) = Success(200)
           /\ statusAt(done.table, r.tenantId, r.appointmentId) = st
  /\ (last.op = "create" /\ last.result.outcome = "value") =>
       last.result.value.status = "scheduled"
  /\ (last.op = "update" /\ last.prior \in Statuses) =>
       \/ last.result = Throw("Access denied")
       \/ /\ last.result.outcome = "value"
          /\ last.result.value.status \in Statuses
          /\ statusAt(table, last.pathParameters.tenantId,
                      last.pathParameters.appointmentId) = last.result.value.status

\* a cancelled appointment was confirmed
C27_Witness ==
  /\ last.op = "update"
  /\ last.prior = "cancelled"
  /\ last.result.outcome = "value"
  /\ last.result.value.status = "confirmed"
  /\ last.response = Success(200)

\* C28: the handler's outcome mapping for a request that passed the guard.
\* GET with an appointment id answers 404 exactly when the service returned
\* null, 200 exactly when it returned the record and 500 exactly when it
\* threw; PUT and DELETE without an appointment id answer 400 and a method
\* other than GET, POST, PUT, DELETE answers 405, both without calling the
\* service; PUT answers 404 when the service returned null and DELETE when
\* it returned false.
C28_OutcomeMapping ==
  /\ last.op = "get" =>
       /\ last.guard = "passed"
       /\ last.response.statusCode = 404 <=> last.result.outcome = "null"
       /\ last.response = Success(200) <=> last.result.outcome = "value"
       /\ last.response.statusCode = 500 <=> last.result.outcome = "throw"
  /\ last.op = "unrouted" =>
       /\ last.guard = "passed"
       /\ ~last.service /\ ~last.touched /\ ~Has(last, "result")
       /\ last.httpMethod \in {"PUT", "DELETE"} =>
            /\ ~Has(last.pathParameters, "appointmentId")
            /\ last.response.statusCode = 400
       /\ last.httpMethod \notin {"GET", "POST", "PUT", "DELETE"} =>
            last.response = Error(405, "Method not allowed", "undefined")
  /\ (last.op = "update" /\ last.result.outcome = "null") =>
       last.response = Error(404, "Appointment not found", "undefined")
  /\ (last.op = "delete" /\ last.result.outcome = "false") =>
       last.response = Error(404, "Appointment not found", "undefined")

\* a GET of a stored record by a user who is not its owner: the service
\* threw and the answer is 500
C28_Witness ==
  /\ last.op = "get"
  /\ last.result = Throw("Access denied")
  /\ last.response.statusCode = 500
  /\ Addressed(table, last.pathParameters).found

\* C28 as first stated: a GET with an appointment id whose table operation
\* did not fail answers 404 when the service returned no record and 200
\* otherwise.
C28_GetFoundOrNot ==
  (last.op = "get" /\ ~Has(last, "storage")) =>
    /\ last.response.statusCode = 404 <=> last.result.outcome = "null"
    /\ last.response.statusCode # 404 => last.response = Success(200)

\* C29: an update never creates or resurrects a record.  Every stored item
\* carries the full record (tenantId, userId, title, startTime, endTime,
\* status, createdAt) and all index keys, and an update whose write is
\* applied after the record was deleted leaves no item at the key.
C29_NoResurrection ==
  /\ \A i \in table :
       {"appointmentId", "tenantId", "userId", "title", "startTime", "endTime",
        "status", "createdAt"} \cup KeyAttributes \subseteq DOMAIN i
  /\ (last.op = "update" /\ last.prior = "undefined") =>
       ~Addressed(table, last.pathParameters).found

\* C30: owner-index partitions do not collide.  Two distinct pairs
\* (tenantId, userId) never yield the same owner-index partition key, and no
\* owner-index key equals the tenant-index key of a different tenant, also
\* for ids that contain '#' or '#USER#'; a tenant-user's list for one pair
\* returns nothing of what was created for another pair.
C30_OwnerPartitionsDisjoint ==
  Has(last, "owner") =>
    /\ last.owner.a = last.owner.b => last.a = last.b
    /\ last.owner.a = last.tenant.b => last.a.tenantId = last.b.tenantId
    /\ last.a # last.b =>
         LET made == createAppointment({}, now, "a1", last.a.tenantId, last.a.id,
                                       SoundBody).table
         IN  \A result \in listAppointments(made, last.b.tenantId, last.b.id,
                                            "tenant-user", Empty) :
               result.value = <<>>

====
